---- MODULE Spec2Model ----
(***************************************************************************)
(* Model of PipelineBase (demos/common/processing/pipeline_base.cpp): the  *)
(* asynchronous scheduler that submits frames to a pool of infer requests, *)
(* collects their results from completion callbacks in any order and hands *)
(* them to the consumer in submission order.                               *)
(*                                                                         *)
(* Threads.  One consumer thread calls getIdleRequest, submitRequest,      *)
(* waitForData, getResult and the destructor.  Every started request runs  *)
(* its completion callback once, on a thread of the executor.              *)
(*                                                                         *)
(* Atomicity.  The callback body (lines 107-126), the body of waitForData  *)
(* and the body of getResult run under std::mutex mtx, so each is one      *)
(* action.  submitRequest takes no lock, but it runs on the consumer       *)
(* thread, only it writes inputFrameId and perfInfo.startTime, and the     *)
(* callback it registers cannot run before StartAsync (its last            *)
(* statement), so it is one action too.  condVar.notify_one() (line 127)   *)
(* runs after the lock is released and is a step of its own.               *)
(***************************************************************************)
EXTENDS Integers, Sequences, FiniteSets, TLC

\* ---------------------------------------------------------------- bounds
\* Number of infer requests in the pool (cnnConfig.maxAsyncRequests).
PoolSize == 2
\* Largest value of the frame-id type.  The program's type is int64_t; the
\* model keeps the type's shape (a signed range MinFrameId..MaxFrameId) at a
\* width that the submissions of a run can exhaust.
MaxFrameId == 2
\* Last reading of the steady clock, in ticks.
MaxClock == 2
\* Clock ticks per millisecond (the ratio duration_cast<milliseconds> divides by).
TicksPerMs == 2

MinFrameId == -(MaxFrameId + 1)
\* Submissions in one run: up to and including the one whose increment
\* overflows the frame id.
MaxSubmits == MaxFrameId + 1
\* Frames submitted and not yet retrieved.  Fewer than the number of distinct
\* frame ids, as in the program, where 2^63 results cannot be outstanding.
MaxOutstanding == MaxFrameId

Slots == 1..PoolSize
FrameIds == MinFrameId..MaxFrameId

NoRequest == 0
\* Exceptions: none, the std::invalid_argument of line 92, and what a callback
\* catches at line 121 (told apart by the frame whose callback threw).
NoException == [kind |-> "none", frameId |-> 0]
InvalidArgument == [kind |-> "invalid_argument", frameId |-> 0]
CallbackFault(frameID) == [kind |-> "callback", frameId |-> frameID]
\* RequestResult: the value built at lines 111-115, and the empty RequestResult().
RequestResult(frameID, startTime) ==
    [empty |-> FALSE, frameId |-> frameID, startTime |-> startTime]
EmptyResult == [empty |-> TRUE, frameId |-> 0, startTime |-> 0]

VARIABLES
    inputFrameId,            \* PipelineBase::inputFrameId
    outputFrameId,           \* PipelineBase::outputFrameId
    outputName,              \* PipelineBase::outputName ("" until configured)
    requestsPool,            \* request -> TRUE when InUse
    inflight,                \* started requests whose callback has not run
    completedRequestResults, \* the map's entries: a set of RequestResult
    callbackException,       \* PipelineBase::callbackException
    perfInfo,                \* PipelineBase::perfInfo
    now,                     \* the latest reading of std::chrono::steady_clock
    notifyPending,           \* callbacks between unlocking mtx and notify_one
    pc,                      \* consumer: "ready", "blocked" (in condVar.wait), "destroyed"
    held,                    \* request the consumer acquired and has not started
    submitted,               \* history: frame ids returned by submitRequest
    retrieved,               \* history: frame ids of the non-empty getResult returns
    faulted,                 \* history: frame ids whose callback failed
    firstSubmitTime,         \* history: clock reading of the first successful submitRequest
    last                     \* history: the consumer's last call and its outcome

progVars == <<inputFrameId, outputFrameId, outputName, requestsPool, inflight,
              completedRequestResults, callbackException, perfInfo>>
vars == <<inputFrameId, outputFrameId, outputName, requestsPool, inflight,
          completedRequestResults, callbackException, perfInfo, now,
          notifyPending, pc, held, submitted, retrieved, faulted,
          firstSubmitTime, last>>

\* firstSubmitTime before any submission.
NotYet == 0 - 1

\* ------------------------------------------------------------- helpers
\* RequestsPool::getInUseRequestsCount
getInUseRequestsCount == Cardinality({r \in Slots : requestsPool[r]})

\* RequestsPool::setRequestIdle
setRequestIdle(pool, request) == [pool EXCEPT ![request] = FALSE]

\* The predicate of condVar.wait in waitForData (line 80).
WaitPredicate ==
    \/ callbackException # NoException
    \/ getInUseRequestsCount # 0
    \/ completedRequestResults # {}

\* "id++; if (id < 0) id = 0;" on an int64_t (lines 130-132, 147-149).
\* Incrementing the largest value overflows a signed integer, which is
\* undefined: a build that wraps and then tests the sign stores 0, a build
\* that folds the test under the no-overflow assumption (id + 1 < 0 into
\* id < -1) leaves the wrapped value, the smallest one.
IncrementFrameId(id) ==
    IF id = MaxFrameId THEN {0, MinFrameId}
    ELSE {IF id + 1 < 0 THEN 0 ELSE id + 1}

\* duration_cast<std::chrono::milliseconds>(d).count(): truncating division.
Milliseconds(d) == d \div TicksPerMs

Call(op, raised, result) == [op |-> op, raised |-> raised, result |-> result]

\* ---------------------------------------------------------------- Init
Init ==
    /\ inputFrameId = 0
    /\ outputFrameId = 0
    /\ outputName \in {"", "out"}
    /\ requestsPool = [r \in Slots |-> FALSE]
    /\ inflight = {}
    /\ completedRequestResults = {}
    /\ callbackException = NoException
    /\ perfInfo = [numRequestsInUse |-> 0, startTime |-> 0, latencySum |-> 0,
                   framesCount |-> 0, FPS |-> [num |-> 0, den |-> 1]]
    /\ now = 0
    /\ notifyPending = 0
    /\ pc = "ready"
    /\ held = NoRequest
    /\ submitted = <<>>
    /\ retrieved = <<>>
    /\ faulted = {}
    /\ firstSubmitTime = NotYet
    /\ last = Call("none", NoException, EmptyResult)

\* ------------------------------------------------------------- actions
\* std::chrono::steady_clock::now() (lines 94, 152): the clock is monotonic,
\* so a reading is any value from the previous reading on.
SteadyClockNow == now..MaxClock

\* RequestsPool::getIdleRequest, called by the consumer before submitRequest:
\* an idle request becomes InUse and is handed to the caller.  (When none is
\* idle it returns null and the caller does not submit.)
getIdleRequest ==
    /\ pc = "ready"
    /\ held = NoRequest
    /\ Len(submitted) < MaxSubmits
    /\ Len(submitted) - Len(retrieved) < MaxOutstanding
    /\ \E r \in Slots :
         /\ ~requestsPool[r]
         /\ requestsPool' = [requestsPool EXCEPT ![r] = TRUE]
         /\ held' = r
    /\ UNCHANGED <<inputFrameId, outputFrameId, outputName, inflight,
                   completedRequestResults, callbackException, perfInfo, now,
                   notifyPending, pc, submitted, retrieved, faulted,
                   firstSubmitTime, last>>

\* perfInfo.startTime is set when it still holds its initial value (lines 96-99).
FirstStartTime(startTime, frameStartTime) ==
    IF startTime = 0 THEN frameStartTime ELSE startTime

\* PipelineBase::submitRequest(request), lines 86-136.
submitRequest(request) ==
    /\ pc = "ready"
    /\ request # NoRequest
    /\ request = held
    /\ LET sampled == [perfInfo EXCEPT !.numRequestsInUse = getInUseRequestsCount]
       IN IF outputName = ""
          THEN \* line 92: throw std::invalid_argument
               /\ perfInfo' = sampled
               /\ last' = Call("submitRequest", InvalidArgument, EmptyResult)
               /\ UNCHANGED <<inputFrameId, outputFrameId, outputName, requestsPool,
                              inflight, completedRequestResults, callbackException,
                              now, notifyPending, pc, held, submitted, retrieved,
                              faulted, firstSubmitTime>>
          ELSE \E frameStartTime \in SteadyClockNow :
               LET frameID == inputFrameId
               IN /\ now' = frameStartTime
                  /\ perfInfo' = [sampled EXCEPT !.startTime =
                                    FirstStartTime(@, frameStartTime)]
                  /\ inflight' = inflight \cup
                        {[frameId |-> frameID, request |-> request,
                          startTime |-> frameStartTime]}
                  /\ inputFrameId' \in IncrementFrameId(inputFrameId)
                  /\ held' = NoRequest
                  /\ submitted' = Append(submitted, frameID)
                  /\ firstSubmitTime' = IF submitted = <<>> THEN frameStartTime
                                        ELSE firstSubmitTime
                  /\ last' = Call("submitRequest", NoException,
                                  RequestResult(frameID, frameStartTime))
                  /\ UNCHANGED <<outputFrameId, outputName, requestsPool,
                                 completedRequestResults, callbackException,
                                 notifyPending, pc, retrieved, faulted>>

\* completedRequestResults.emplace(frameID, result), line 117: no entry is
\* inserted when the key is already present.
Emplace(results, result) ==
    IF \E x \in results : x.frameId = result.frameId
    THEN results
    ELSE results \cup {result}

\* Variant of CallbackResults: the entry is inserted before the step that can throw.
CallbackResultsAlways(results, job, ok) ==
    Emplace(results, RequestResult(job.frameId, job.startTime))

\* The entries the callback leaves in the map (lines 110-120): the result is
\* inserted unless building it threw.
CallbackResults(results, job, ok) ==
    IF ok
    THEN Emplace(results, RequestResult(job.frameId, job.startTime))
    ELSE results

\* Variant of CallbackRelease: the callback marks every request of the pool idle.
CallbackReleaseAll(pool, request) == [r \in DOMAIN pool |-> FALSE]

\* this->requestsPool.setRequestIdle(request), line 119.
CallbackRelease(pool, request) == setRequestIdle(pool, request)

\* Variant of RecordException: the catch block stores the exception unconditionally.
RecordLatestException(current, e) == e

\* The catch block, lines 121-125: only the first exception is kept.
RecordException(current, e) ==
    IF current = NoException THEN e ELSE current

\* Variant of CompletionCallback: the request is set idle on the failure path too.
CompletionCallbackAlwaysReleases(job, ok) ==
    /\ job \in inflight
    /\ inflight' = inflight \ {job}
    /\ completedRequestResults' = CallbackResults(completedRequestResults, job, ok)
    /\ requestsPool' = CallbackRelease(requestsPool, job.request)
    /\ IF ok
       THEN UNCHANGED <<callbackException, faulted>>
       ELSE /\ callbackException' =
                   RecordException(callbackException, CallbackFault(job.frameId))
            /\ faulted' = faulted \cup {job.frameId}
    /\ notifyPending' = notifyPending + 1
    /\ UNCHANGED <<inputFrameId, outputFrameId, outputName, perfInfo, now, pc,
                   held, submitted, retrieved, firstSubmitTime, last>>

\* The completion callback of one started request: the block under mtx,
\* lines 107-126.  ok = FALSE: line 114 threw.
CompletionCallback(job, ok) ==
    /\ job \in inflight
    /\ inflight' = inflight \ {job}
    /\ completedRequestResults' = CallbackResults(completedRequestResults, job, ok)
    /\ IF ok
       THEN /\ requestsPool' = CallbackRelease(requestsPool, job.request)
            /\ UNCHANGED <<callbackException, faulted>>
       ELSE /\ callbackException' =
                   RecordException(callbackException, CallbackFault(job.frameId))
            /\ faulted' = faulted \cup {job.frameId}
            /\ UNCHANGED requestsPool
    /\ notifyPending' = notifyPending + 1
    /\ UNCHANGED <<inputFrameId, outputFrameId, outputName, perfInfo, now, pc,
                   held, submitted, retrieved, firstSubmitTime, last>>

\* Variant of Rethrown: waitForData returns normally although a fault is stored.
RethrownNothing(exception) == NoException

\* What waitForData does once its predicate holds (lines 82-83): rethrow the
\* stored exception, or return normally.
Rethrown(exception) == exception

\* condVar.notify_one(), line 127, after the callback released mtx.  A
\* consumer blocked in condVar.wait re-evaluates the predicate and returns
\* from waitForData when it holds.
NotifyOne ==
    /\ notifyPending > 0
    /\ notifyPending' = notifyPending - 1
    /\ IF pc = "blocked" /\ WaitPredicate
       THEN /\ pc' = "ready"
            /\ last' = Call("waitForData", Rethrown(callbackException), EmptyResult)
       ELSE UNCHANGED <<pc, last>>
    /\ UNCHANGED <<progVars, now, held, submitted, retrieved, faulted,
                   firstSubmitTime>>

\* PipelineBase::waitForData, lines 76-84.
waitForData ==
    /\ pc = "ready"
    /\ IF WaitPredicate
       THEN /\ last' = Call("waitForData", Rethrown(callbackException), EmptyResult)
            /\ pc' = pc
       ELSE /\ last' = Call("waitForData", NoException, EmptyResult)
            /\ pc' = "blocked"
    /\ UNCHANGED <<progVars, now, notifyPending, held, submitted, retrieved, faulted,
                   firstSubmitTime>>

\* Variant of Find: the lookup takes whatever entry the map holds (begin()).
FindAnyEntry(results, id) == results

\* completedRequestResults.find(outputFrameId), lines 142-143.
Find(results, id) == {x \in results : x.frameId = id}

\* Variant of UpdatePerfInfo: the frame is not counted.
UpdatePerfInfoNoCount(info, result, t) ==
    [info EXCEPT !.latencySum = @ + (t - result.startTime),
                 !.FPS = [num |-> info.framesCount * 1000,
                          den |-> Milliseconds(t - info.startTime)]]

\* The performance counters after a retrieval at time t (lines 152-155).
UpdatePerfInfo(info, result, t) ==
    [info EXCEPT !.latencySum = @ + (t - result.startTime),
                 !.framesCount = @ + 1,
                 !.FPS = [num |-> (info.framesCount + 1) * 1000,
                          den |-> Milliseconds(t - info.startTime)]]

\* Variant of getResultFound: the entry is returned but not erased.
getResultFoundKeepsEntry(retVal) ==
    /\ outputFrameId' \in IncrementFrameId(outputFrameId)
    /\ \E t \in SteadyClockNow :
          /\ now' = t
          /\ perfInfo' = UpdatePerfInfo(perfInfo, retVal, t)
    /\ retrieved' = Append(retrieved, retVal.frameId)
    /\ last' = Call("getResult", NoException, retVal)
    /\ UNCHANGED <<inputFrameId, outputName, requestsPool, inflight,
                   completedRequestResults, callbackException, notifyPending, pc,
                   held, submitted, faulted, firstSubmitTime>>

\* getResult when the map holds an entry for outputFrameId, lines 145-157.
getResultFound(retVal) ==
    /\ completedRequestResults' = completedRequestResults \ {retVal}
    /\ outputFrameId' \in IncrementFrameId(outputFrameId)
    /\ \E t \in SteadyClockNow :
          /\ now' = t
          /\ perfInfo' = UpdatePerfInfo(perfInfo, retVal, t)
    /\ retrieved' = Append(retrieved, retVal.frameId)
    /\ last' = Call("getResult", NoException, retVal)
    /\ UNCHANGED <<inputFrameId, outputName, requestsPool, inflight,
                   callbackException, notifyPending, pc, held, submitted,
                   faulted, firstSubmitTime>>

\* Variant of getResultMissing: a missing frame is skipped, outputFrameId advances.
getResultMissingSkips ==
    /\ outputFrameId' \in IncrementFrameId(outputFrameId)
    /\ last' = Call("getResult", NoException, EmptyResult)
    /\ UNCHANGED <<inputFrameId, outputName, requestsPool, inflight,
                   completedRequestResults, callbackException, perfInfo, now,
                   notifyPending, pc, held, submitted, retrieved, faulted,
                   firstSubmitTime>>

\* getResult when it does not, line 160: return RequestResult().
getResultMissing ==
    /\ last' = Call("getResult", NoException, EmptyResult)
    /\ UNCHANGED <<progVars, now, notifyPending, pc, held, submitted, retrieved,
                   faulted, firstSubmitTime>>

\* PipelineBase::getResult, lines 138-161.
getResult ==
    /\ pc = "ready"
    /\ IF Find(completedRequestResults, outputFrameId) # {}
       THEN \E retVal \in Find(completedRequestResults, outputFrameId) :
               getResultFound(retVal)
       ELSE getResultMissing

\* PipelineBase::~PipelineBase, lines 29-32: waitForTotalCompletion() returns
\* when no request is InUse, then the members are destroyed.
Destructor ==
    /\ pc = "ready"
    /\ getInUseRequestsCount = 0
    /\ pc' = "destroyed"
    /\ last' = Call("destructor", NoException, EmptyResult)
    /\ UNCHANGED <<progVars, now, notifyPending, held, submitted, retrieved, faulted,
                   firstSubmitTime>>

Next ==
    \/ getIdleRequest
    \/ \E r \in Slots : submitRequest(r)
    \/ \E job \in inflight, ok \in BOOLEAN : CompletionCallback(job, ok)
    \/ NotifyOne
    \/ waitForData
    \/ getResult
    \/ Destructor

Spec == Init /\ [][Next]_vars

\* ---------------------------------------------------------------- steps
\* A submitRequest call that got past the outputName test, a getResult call
\* that found no entry for outputFrameId, and one that found it.
SubmitStep == \E r \in Slots : submitRequest(r)
SubmitOkStep == outputName # "" /\ SubmitStep
GetResultMissStep == getResult /\ Find(completedRequestResults, outputFrameId) = {}
GetResultFoundStep == getResult /\ Find(completedRequestResults, outputFrameId) # {}

\* A step of some completion callback (its block under mtx).
CallbackStep == \E job \in inflight, ok \in BOOLEAN : CompletionCallback(job, ok)

\* The steps whose code holds std::mutex mtx: waitForData (line 78), the
\* callback's block (line 108) and getResult (line 140).  submitRequest
\* (lines 86-136) takes no lock.
UnderMtx == waitForData \/ getResult \/ CallbackStep

\* --------------------------------------------------------------- liveness
\* The runs in which no callback fails and the consumer keeps polling: every
\* started request's callback runs (the executor calls it), its notify_one()
\* follows, and the consumer calls getResult again and again.
CallbackOkStep == \E job \in inflight : CompletionCallback(job, TRUE)

LiveNext ==
    \/ getIdleRequest
    \/ SubmitStep
    \/ CallbackOkStep
    \/ NotifyOne
    \/ waitForData
    \/ getResult

LiveSpec ==
    /\ Init
    /\ [][LiveNext]_vars
    /\ WF_vars(CallbackOkStep)
    /\ WF_vars(NotifyOne)
    /\ WF_vars(getResult)

\* --------------------------------------------------------------- claims
\* C1: the k-th non-empty result returned by getResult carries the frame id
\* returned by the k-th submitRequest, and that id is k-1, whatever the order
\* in which the callbacks ran: nothing is skipped, repeated or reordered.
\* (Stated for the ids 0..MaxFrameId, the frames before the id overflows.)
C1_ResultsInSubmissionOrder ==
    /\ Len(retrieved) <= Len(submitted)
    /\ \A k \in 1..Len(retrieved) :
          k <= MaxFrameId + 1 => retrieved[k] = k - 1 /\ retrieved[k] = submitted[k]

\* C1 witness: frame 0 was retrieved, frame 2 completed before frame 1 (which
\* is still in flight), and getResult has just answered "empty" for frame 1.
C1_Witness ==
    /\ retrieved = <<0>>
    /\ \E x \in completedRequestResults : x.frameId = 2
    /\ \E job \in inflight : job.frameId = 1
    /\ last.op = "getResult" /\ last.result = EmptyResult

\* C2 (as claimed): a consumer blocked in waitForData is always woken again:
\* whenever it is blocked, either the wait predicate holds or a callback that
\* will make it hold is still to run.
C2_BlockedConsumerIsWoken ==
    pc = "blocked" => (WaitPredicate \/ inflight # {})

C4_FirstFaultKept ==
    [][callbackException # NoException => callbackException' = callbackException]_vars

\* C4 witness: two callbacks failed and the stored exception is not the one
\* of the later failure.
C4_Witness ==
    /\ callbackException # NoException
    /\ \E k \in faulted : callbackException # CallbackFault(k)

\* C5: with a fault stored, waitForData returns at once and raises exactly
\* the stored fault; submitRequest and getResult never raise a callback's fault.
C5_FaultSurfacesInWaitOnly ==
    [][ /\ (callbackException # NoException /\ waitForData)
            => (pc' = "ready" /\ last'.raised = callbackException)
        /\ (SubmitStep \/ getResult) => last'.raised.kind # "callback"
      ]_vars

\* C5 witness: waitForData has just raised the stored fault, while a second,
\* different failure had happened.
C5_Witness ==
    /\ last.op = "waitForData"
    /\ last.raised = callbackException
    /\ callbackException # NoException
    /\ \E k \in faulted : callbackException # CallbackFault(k)

\* C6 (as claimed): a submitRequest call with outputName unset raises
\* invalid_argument and changes nothing of the scheduler's state.
C6_FailedSubmitChangesNothing ==
    [][ (outputName = "" /\ SubmitStep)
            => (last'.raised = InvalidArgument /\ UNCHANGED progVars)
      ]_vars

\* C7: a getResult call that finds no entry for outputFrameId returns the
\* empty result, does not block, and leaves outputFrameId, the buffer and the
\* performance counters as they were.
C7_MissChangesNothing ==
    [][ GetResultMissStep
            => /\ last'.result = EmptyResult
               /\ pc' = "ready"
               /\ UNCHANGED <<progVars, retrieved>>
      ]_vars

\* C7 witness: getResult has just returned empty while results of other
\* frames are buffered.
C7_Witness ==
    /\ last.op = "getResult"
    /\ last.result = EmptyResult
    /\ completedRequestResults # {}
    /\ Find(completedRequestResults, outputFrameId) = {}

\* C8 (as claimed): submitRequest returns the old inputFrameId and advances it
\* by one, to 0 after the largest value; getResult advances outputFrameId by
\* the same rule; neither is ever negative.
C8_WrapToZero ==
    [][ /\ SubmitOkStep =>
              /\ last'.result.frameId = inputFrameId
              /\ inputFrameId' = IF inputFrameId = MaxFrameId THEN 0
                                 ELSE inputFrameId + 1
        /\ GetResultFoundStep =>
              outputFrameId' = IF outputFrameId = MaxFrameId THEN 0
                               ELSE outputFrameId + 1
        /\ inputFrameId' >= 0
        /\ outputFrameId' >= 0
      ]_vars

\* C9: for a frame whose callback failed, no result is ever in the buffer,
\* no getResult call returns it (the call for its id returns empty), and every
\* waitForData call returns by raising.
C9_FaultedFrameNeverProduced ==
    [][ /\ \A k \in faulted' : Find(completedRequestResults', k) = {}
        /\ \A k \in faulted :
              /\ waitForData => (pc' = "ready" /\ last'.raised.kind = "callback")
              /\ getResult =>
                    /\ outputFrameId = k => last'.result = EmptyResult
                    /\ ~last'.result.empty => last'.result.frameId # k
      ]_vars

\* C9 witness: one frame was submitted, its callback failed, and getResult
\* has just returned empty for its id.
C9_Witness ==
    /\ submitted = <<0>>
    /\ faulted = {0}
    /\ outputFrameId = 0
    /\ last.op = "getResult"
    /\ last.result = EmptyResult

\* C10 (as claimed): when the destructor has finished, no request is InUse
\* and no completion callback has a step left to run on the object.
C10_NoCallbackAfterTeardown ==
    pc = "destroyed" =>
        /\ getInUseRequestsCount = 0
        /\ inflight = {}
        /\ notifyPending = 0

\* C11 (as claimed): after the K-th non-empty getResult return, framesCount
\* is K, latencySum has grown by (retrieval time - the result's start time),
\* and FPS is K * 1000 over the milliseconds from the first submission to this
\* retrieval.
C11_PerfCounters ==
    [][ GetResultFoundStep =>
          /\ perfInfo'.framesCount = Len(retrieved')
          /\ perfInfo'.latencySum =
                perfInfo.latencySum + (now' - last'.result.startTime)
          /\ perfInfo'.FPS = [num |-> Len(retrieved') * 1000,
                              den |-> Milliseconds(now' - firstSubmitTime)]
      ]_vars

\* C15 (as claimed): the first successful submitRequest sets
\* perfInfo.startTime to its clock reading, whatever that reading is, and no
\* later submitRequest changes it.
C15_StartTimeSetOnce ==
    [][ SubmitOkStep =>
          perfInfo'.startTime = IF submitted = <<>> THEN now'
                                ELSE perfInfo.startTime
      ]_vars

\* C12: the buffer never holds two entries with one frame id; a callback
\* never removes or replaces an entry; an entry leaves the buffer only in a
\* getResult call, which removes exactly the entry it returns, and no frame id
\* is returned twice.
C12_OneEntryRemovedOnce ==
    [][ /\ \A x, y \in completedRequestResults' : x.frameId = y.frameId => x = y
        /\ CallbackStep => completedRequestResults \subseteq completedRequestResults'
        /\ completedRequestResults \ completedRequestResults' # {} =>
              /\ GetResultFoundStep
              /\ completedRequestResults \ completedRequestResults' = {last'.result}
        /\ GetResultFoundStep =>
              /\ last'.result \in completedRequestResults
              /\ last'.result \notin completedRequestResults'
        /\ \A i, j \in 1..Len(retrieved') : retrieved'[i] = retrieved'[j] => i = j
      ]_vars

\* C12 witness: getResult has just returned a result, which is no longer in
\* the buffer, while another frame's result stays buffered.
C12_Witness ==
    /\ last.op = "getResult"
    /\ ~last.result.empty
    /\ last.result \notin completedRequestResults
    /\ completedRequestResults # {}

\* C13: a callback either stores exactly one result, keyed by its own frame
\* id, and sets its own request idle, or it stores nothing for its frame,
\* records a fault and leaves its request InUse; never both, never neither.
\* Either way one notify_one() is owed once the lock is released.
C13_CallbackOutcomes ==
    [][ CallbackStep =>
          \E job \in inflight :
             LET stored == RequestResult(job.frameId, job.startTime)
                 Success ==
                    /\ completedRequestResults' = completedRequestResults \cup {stored}
                    /\ stored \notin completedRequestResults
                    /\ Find(completedRequestResults', job.frameId) = {stored}
                    /\ requestsPool' = [requestsPool EXCEPT ![job.request] = FALSE]
                    /\ UNCHANGED <<callbackException, faulted>>
                 Failure ==
                    /\ completedRequestResults' = completedRequestResults
                    /\ Find(completedRequestResults', job.frameId) = {}
                    /\ requestsPool' = requestsPool
                    /\ requestsPool'[job.request]
                    /\ callbackException' # NoException
                    /\ job.frameId \in faulted'
             IN /\ inflight' = inflight \ {job}
                /\ Success \/ Failure
                /\ ~(Success /\ Failure)
                /\ notifyPending' = notifyPending + 1
      ]_vars

\* C13 witness: one callback succeeded (its result is buffered), another
\* failed (its request is still InUse with nothing in flight), and the
\* notifications of both are still owed.
C13_Witness ==
    /\ faulted # {}
    /\ completedRequestResults # {}
    /\ inflight = {}
    /\ held = NoRequest
    /\ getInUseRequestsCount = Cardinality(faulted)
    /\ notifyPending = 2

\* No frame id has overflowed yet.
NoWraparound == Len(submitted) <= MaxFrameId

\* Number of the states in flight / buffered / retrieved / faulted frame id is in.
StatesOf(id) ==
    (IF \E job \in inflight : job.frameId = id THEN 1 ELSE 0)
  + (IF Find(completedRequestResults, id) # {} THEN 1 ELSE 0)
  + (IF \E j \in 1..Len(retrieved) : retrieved[j] = id THEN 1 ELSE 0)
  + (IF id \in faulted THEN 1 ELSE 0)

\* C17: before any wraparound, every submitted frame is in exactly one of the
\* states in flight, buffered, retrieved, faulted; every buffered id lies in
\* outputFrameId..inputFrameId-1; outputFrameId <= inputFrameId; and
\* framesCount equals outputFrameId.
C17_Conservation ==
    NoWraparound =>
        /\ \A i \in 1..Len(submitted) : StatesOf(submitted[i]) = 1
        /\ \A x \in completedRequestResults :
              outputFrameId <= x.frameId /\ x.frameId < inputFrameId
        /\ outputFrameId <= inputFrameId
        /\ perfInfo.framesCount = outputFrameId

\* C17 witness: before the wraparound, one frame retrieved and another buffered.
C17_Witness ==
    /\ NoWraparound
    /\ Len(submitted) = MaxFrameId
    /\ retrieved # <<>>
    /\ completedRequestResults # {}

\* C18: once the callback of frame k has failed, outputFrameId stays at or
\* below k, getResult returns no frame beyond k, and buffered results of later
\* frames are never removed.
C18_HeadOfLineBlocking ==
    [][ /\ \A k \in faulted' : outputFrameId' <= k
        /\ \A k \in faulted :
              /\ GetResultFoundStep => last'.result.frameId < k
              /\ \A x \in completedRequestResults :
                    x.frameId > k => x \in completedRequestResults'
      ]_vars

\* C18 witness: frame k failed, a later frame's result is buffered, and
\* getResult has just returned empty at outputFrameId = k.
C18_Witness ==
    /\ outputFrameId \in faulted
    /\ \E x \in completedRequestResults : x.frameId > outputFrameId
    /\ last.op = "getResult"
    /\ last.result = EmptyResult

\* C14 (as claimed): submitRequest, waitForData, getResult and the callbacks
\* touch the buffer, the pool state, the stored fault and the performance
\* counters only while holding mtx.  (Stated for the writes, which show in
\* the state.)
C14_SharedStateUnderMtx ==
    [][ ( /\ SubmitStep \/ waitForData \/ getResult \/ CallbackStep
          /\ <<completedRequestResults, requestsPool, callbackException, perfInfo>>'
                # <<completedRequestResults, requestsPool, callbackException, perfInfo>> )
        => UnderMtx
      ]_vars

\* Every submitted frame has been retrieved.
Drained ==
    /\ completedRequestResults = {}
    /\ Len(retrieved) = Len(submitted)
    /\ outputFrameId = inputFrameId

DrainedBeforeOverflow ==
    []<>( /\ completedRequestResults = {}
          /\ Len(retrieved) = Len(submitted)
          /\ (NoWraparound => outputFrameId = inputFrameId) )

\* C19 (as claimed): once every callback has run (nothing is in flight and
\* the consumer holds no request), teardown can complete: no request is InUse.
C19_TeardownCanComplete ==
    (pc = "ready" /\ inflight = {} /\ held = NoRequest) => getInUseRequestsCount = 0

====
